---- MODULE Spec2Model ----
(***************************************************************************)
(* OrbitWatch backend (src/backend/app.py): the /analyze request handler,  *)
(* the lazily loaded model registry behind models_lock, the TLE parser and *)
(* the risk synthesizer.                                                   *)
(*                                                                         *)
(* Numbers that are floats in the program are fixed-point here: a score,   *)
(* a probability or a decision value v is held as the integer v * Unit     *)
(* (thousandths).  A float parsed out of a TLE slice is held as the        *)
(* numeral that was parsed.                                                *)
(***************************************************************************)
EXTENDS Integers, Sequences, FiniteSets, TLC

\* Fixed-point resolution: thousandths.
Unit == 10 * 100

\* ---------------------------------------------------------------- bounds
\* Concurrent analyze calls (one request each).
NumCalls == 2
\* Isolation-forest decision values range over -MaxDecision..MaxDecision
\* (thousandths) in SpecScore, plus PathologicalDecision.
MaxDecision == 300
\* Longest TLE line drawn in SpecParse.
MaxLineLen == 70

Calls == 1..NumCalls

\* ------------------------------------------------------ program constants
\* prediction = (pred_proba > 0.5), is_anomaly = prediction[0] > 0.5
ProbCut == 500
\* score = 1 - max(0, min(1, (raw_score + 0.15) / 0.2))
IsoOffset == 150
IsoSpan == 200
\* risk_score = int(score * 100)
Percent == 100
\* if risk_score > 85 / elif > 70 / elif > 40
CriticalAbove == 85
HighAbove == 70
ModerateAbove == 40

Min(a, b) == IF a < b THEN a ELSE b
Max(a, b) == IF a > b THEN a ELSE b

\* ------------------------------------------------------------ TLE parsing
\* Characters of a line: "1" stands for a digit, " " for blank padding and
\* "x" for any character float() rejects.
Digit == "1"
Blank == " "
Letter == "x"

\* A line of length len, all digits but for character ch in column col
\* (1-based; col = 0 leaves the line all digits).
MkLine(len, col, ch) == [i \in 1..len |-> IF i = col THEN ch ELSE Digit]

\* Python s[a:b] for 0 <= a <= b: never raises, cut at the end of s.
PySlice(s, a, b) ==
    IF a >= Len(s) THEN <<>> ELSE SubSeq(s, a + 1, Min(b, Len(s)))

RECURSIVE LStrip(_)
LStrip(s) == IF s # <<>> /\ Head(s) = Blank THEN LStrip(Tail(s)) ELSE s

RECURSIVE RStrip(_)
RStrip(s) ==
    IF s # <<>> /\ s[Len(s)] = Blank THEN RStrip(SubSeq(s, 1, Len(s) - 1)) ELSE s

AllDigits(s) == s # <<>> /\ \A i \in 1..Len(s) : s[i] = Digit

\* float(s): surrounding blanks are stripped; what is left must be a
\* numeral, else ValueError.
FloatOK(s) == AllDigits(LStrip(RStrip(s)))
FloatOf(s) == LStrip(RStrip(s))

\* float("." + s): the dot is glued on before float() strips, so only
\* trailing blanks are forgiven.
DotFloatOK(s) == AllDigits(RStrip(s))
DotFloatOf(s) == <<".">> \o RStrip(s)

\* The fixed columns read from each line (Python slice bounds).
Line1Slices ==
    [first_derivative_mean_motion |-> <<33, 43>>,
     bstar_mantissa |-> <<53, 59>>,
     bstar_exponent |-> <<59, 61>>]
Line2Slices ==
    [inclination |-> <<8, 16>>,
     raan |-> <<17, 25>>,
     eccentricity |-> <<26, 33>>,
     arg_of_perigee |-> <<34, 42>>,
     mean_anomaly |-> <<43, 51>>,
     mean_motion |-> <<52, 63>>]

Cut1(l, f) == PySlice(l, Line1Slices[f][1], Line1Slices[f][2])
Cut2(l, f) == PySlice(l, Line2Slices[f][1], Line2Slices[f][2])

FEATURES ==
    {"inclination", "raan", "eccentricity", "arg_of_perigee", "mean_anomaly",
     "mean_motion", "bstar_drag", "first_derivative_mean_motion"}

\* parse_tle_to_features returns None.
NoFeatures == [f \in {} |-> <<>>]

\* Every float() of the try block succeeds.
ParseSucceeds(l1, l2) ==
    /\ \A f \in DOMAIN Line1Slices : FloatOK(Cut1(l1, f))
    /\ \A f \in DOMAIN Line2Slices \ {"eccentricity"} : FloatOK(Cut2(l2, f))
    /\ DotFloatOK(Cut2(l2, "eccentricity"))

parse_tle_to_features(l1, l2) ==
    IF ParseSucceeds(l1, l2)
    THEN [f \in FEATURES |->
            CASE f = "first_derivative_mean_motion" ->
                    FloatOf(Cut1(l1, "first_derivative_mean_motion"))
              [] f = "bstar_drag" ->
                    FloatOf(Cut1(l1, "bstar_mantissa")) \o <<"e-">>
                        \o FloatOf(Cut1(l1, "bstar_exponent"))
              [] f = "eccentricity" -> DotFloatOf(Cut2(l2, "eccentricity"))
              [] OTHER -> FloatOf(Cut2(l2, f))]
    ELSE NoFeatures

\* ---------------------------------------------------------------- scoring
MODEL_CHOICES == {"XGBoost", "CNN", "Isolation Forest"}

\* int(x) of the quotient n / d: truncation toward zero.
IntTrunc(n, d) == IF n >= 0 THEN n \div d ELSE -((-n) \div d)

\* prediction = (pred_proba > 0.5).astype(int), for XGBoost and CNN.
ProbPrediction(p) == IF p > ProbCut THEN 1 ELSE 0

\* Variant: the rescaled decision value is not clamped.
IsoScore_Unclamped(d) == Unit - ((d + IsoOffset) * Unit) \div IsoSpan

\* score = 1 - max(0, min(1, (raw_score + 0.15) / 0.2))
IsoScore(d) == Unit - Max(0, Min(Unit, ((d + IsoOffset) * Unit) \div IsoSpan))

\* The (prediction, score) pair analyze_satellite hands to the synthesizer.
\* out is what the selected model returned: p for the two classifiers, the
\* label and the decision value d for the isolation forest.
\* Variant: the classifiers' score is read from the other class's column.
ScoreOf_WrongColumn(choice, out) ==
    IF choice = "Isolation Forest" THEN IsoScore(out.d) ELSE Unit - out.p

PredictionOf(choice, out) ==
    IF choice = "Isolation Forest" THEN out.label ELSE ProbPrediction(out.p)
ScoreOf(choice, out) ==
    IF choice = "Isolation Forest" THEN IsoScore(out.d) ELSE out.p

ANOMALY_DETAILS_MAP ==
    [inclination |-> [mitre |-> "T0821", sparta |-> "C0015"],
     eccentricity |-> [mitre |-> "T0815", sparta |-> "C0012"],
     bstar_drag |-> [mitre |-> "T0809", sparta |-> "C0021"],
     mean_motion |-> [mitre |-> "T0820", sparta |-> "C0014"]]

\* is_anomaly; the integer prediction is compared with 0.5.
IsAnomaly(prediction, model_name) ==
    IF model_name \in {"XGBoost", "CNN"}
    THEN prediction * Unit > ProbCut
    ELSE prediction = -1

\* round(n / d) as Python rounds: to nearest, ties to even (n >= 0).
RoundHalfEven(n, d) ==
    LET q == n \div d
        r == n % d
    IN  IF 2 * r < d THEN q
        ELSE IF 2 * r > d THEN q + 1
        ELSE IF q % 2 = 0 THEN q ELSE q + 1

\* Variant: round(score * 100).
RiskScoreOf_Rounded(score) == RoundHalfEven(score * Percent, Unit)

\* int(score * 100)
RiskScoreOf(score) == IntTrunc(score * Percent, Unit)

\* Variant: the thresholds are inclusive.
RiskLevelOf_Inclusive(risk_score) ==
    IF risk_score >= CriticalAbove THEN "Critical"
    ELSE IF risk_score >= HighAbove THEN "High"
    ELSE IF risk_score >= ModerateAbove THEN "Moderate"
    ELSE "Low"

RiskLevelOf(risk_score) ==
    IF risk_score > CriticalAbove THEN "Critical"
    ELSE IF risk_score > HighAbove THEN "High"
    ELSE IF risk_score > ModerateAbove THEN "Moderate"
    ELSE "Low"

NoAssessment ==
    [description |-> "", model_name |-> "", riskLevel |-> "", riskScore |-> 0,
     mitreTechnique |-> "", spartaClassification |-> ""]

\* reason_key is the draw of random.choice over the catalog's keys.
generate_risk_assessment(prediction, score, model_name, reason_key) ==
    IF ~IsAnomaly(prediction, model_name)
    THEN [description |-> "No anomalous behavior detected.",
          model_name |-> "",
          riskLevel |-> "Informational",
          riskScore |-> RiskScoreOf(score),
          mitreTechnique |-> "N/A",
          spartaClassification |-> "N/A"]
    ELSE [description |-> reason_key,
          model_name |-> model_name,
          riskLevel |-> RiskLevelOf(RiskScoreOf(score)),
          riskScore |-> RiskScoreOf(score),
          mitreTechnique |-> ANOMALY_DETAILS_MAP[reason_key].mitre,
          spartaClassification |-> ANOMALY_DETAILS_MAP[reason_key].sparta]

\* ------------------------------------------------------------------ state
VARIABLES
    models,        \* the registry: key -> "None" | "unloaded" | "loaded"
    models_lock,   \* 0 when free, else the call that holds it
    pc,            \* each call's position in analyze_satellite
    req,           \* each call's request.json
    features,      \* features_dict
    model_choice,  \* model_choice
    output,        \* what the selected model returned
    prediction,    \* prediction[0]
    score,         \* score, in thousandths
    resp,          \* the response sent
    loadCount,     \* times the body of "if models['xgb'] is None" was entered
    loadFailed,    \* the load body has raised
    enteredEmpty   \* calls that arrived while the whole registry was None

vars ==
    <<models, models_lock, pc, req, features, model_choice, output, prediction,
      score, resp, loadCount, loadFailed, enteredEmpty>>

MODEL_KEYS == {"xgb", "cnn", "iso_forest", "scaler"}

NoRequest == [has1 |-> FALSE, has2 |-> FALSE, line1 |-> <<>>, line2 |-> <<>>]
NoOutput == [p |-> 0, label |-> 0, d |-> 0]
NoResponse == [status |-> 0, error |-> "", assessment |-> NoAssessment]

ErrorResponse(status, msg) ==
    [status |-> status, error |-> msg, assessment |-> NoAssessment]
InvalidInput == ErrorResponse(400, "Invalid input. TLE data is required.")
ParseFailed == ErrorResponse(400, "Failed to parse TLE data.")
\* An exception that leaves the view function: the framework answers 500.
Unhandled(exc) == ErrorResponse(500, exc)
LoadError == Unhandled("model load failed")

\* A well-formed 69-column line, and one with a letter in a column both
\* lines are read at.
GoodLine == MkLine(69, 0, Digit)
BadLine == MkLine(69, 60, Letter)

\* Requests drawn in Spec.
Requests ==
    {[has1 |-> TRUE, has2 |-> TRUE, line1 |-> GoodLine, line2 |-> GoodLine],
     [has1 |-> TRUE, has2 |-> TRUE, line1 |-> BadLine, line2 |-> GoodLine],
     [has1 |-> TRUE, has2 |-> FALSE, line1 |-> GoodLine, line2 |-> <<>>],
     [has1 |-> FALSE, has2 |-> TRUE, line1 |-> <<>>, line2 |-> GoodLine]}

\* What a loaded model can return.  The handles are opaque: a classifier
\* returns a probability in [0,1]; the isolation forest returns a label and
\* a decision value, read by two separate calls.
PathologicalDecision == -10 * Unit
ModelOutputs(choice, wide) ==
    IF choice = "Isolation Forest"
    THEN IF wide
         THEN {[p |-> 0, label |-> l, d |-> d] :
                  l \in {-1, 1},
                  d \in (-MaxDecision..MaxDecision) \cup {PathologicalDecision}}
         ELSE {[p |-> 0, label |-> -1, d |-> -100],
               [p |-> 0, label |-> 1, d |-> 100]}
    ELSE IF wide
         THEN {[p |-> p, label |-> 0, d |-> 0] : p \in 0..Unit}
         ELSE {[p |-> p, label |-> 0, d |-> 0] : p \in {900}}

ModelKey(choice) ==
    CASE choice = "XGBoost" -> "xgb"
      [] choice = "CNN" -> "cnn"
      [] choice = "Isolation Forest" -> "iso_forest"

Init ==
    /\ models = [k \in MODEL_KEYS |-> "None"]
    /\ models_lock = 0
    /\ pc = [t \in Calls |-> "idle"]
    /\ req = [t \in Calls |-> NoRequest]
    /\ features = [t \in Calls |-> NoFeatures]
    /\ model_choice = [t \in Calls |-> ""]
    /\ output = [t \in Calls |-> NoOutput]
    /\ prediction = [t \in Calls |-> 0]
    /\ score = [t \in Calls |-> 0]
    /\ resp = [t \in Calls |-> NoResponse]
    /\ loadCount = 0
    /\ loadFailed = FALSE
    /\ enteredEmpty = {}

\* ------------------------------------------------- load_models_if_needed
\* Variant: the with block does not exclude other calls.
LockFree_Unguarded == TRUE

\* "with models_lock:" can be entered.
LockFree == models_lock = 0

\* Variant: the lock is taken and never given back.
ReleaseLock_Leak(t) == t

\* The lock's value once the with block is left by t.
ReleaseLock(t) == 0

\* if models["xgb"] is None
NeedsLoad == models["xgb"] = "None"

\* A request is dispatched to analyze_satellite, which calls
\* load_models_if_needed.
Receive(t) ==
    /\ pc[t] = "idle"
    /\ \E r \in Requests : req' = [req EXCEPT ![t] = r]
    /\ pc' = [pc EXCEPT ![t] = "acquire"]
    /\ enteredEmpty' =
         IF \A k \in MODEL_KEYS : models[k] = "None"
         THEN enteredEmpty \cup {t} ELSE enteredEmpty
    /\ UNCHANGED <<models, models_lock, features, model_choice, output,
                   prediction, score, resp, loadCount, loadFailed>>

Acquire(t) ==
    /\ pc[t] = "acquire"
    /\ LockFree
    /\ models_lock' = t
    /\ pc' = [pc EXCEPT ![t] = "check"]
    /\ UNCHANGED <<models, req, features, model_choice, output, prediction,
                   score, resp, loadCount, loadFailed, enteredEmpty>>

\* The None test under the lock: load, or leave the with block.
Check(t) ==
    /\ pc[t] = "check"
    /\ IF NeedsLoad
       THEN /\ loadCount' = loadCount + 1
            /\ pc' = [pc EXCEPT ![t] = "construct_xgb"]
            /\ UNCHANGED models_lock
       ELSE /\ models_lock' = ReleaseLock(t)
            /\ pc' = [pc EXCEPT ![t] = "validate"]
            /\ UNCHANGED loadCount
    /\ UNCHANGED <<models, req, features, model_choice, output, prediction,
                   score, resp, loadFailed, enteredEmpty>>

\* models["xgb"] = xgb.XGBClassifier(): the entry is set before anything
\* is read from disk.
ConstructXgb(t) ==
    /\ pc[t] = "construct_xgb"
    /\ models' = [models EXCEPT !["xgb"] = "unloaded"]
    /\ pc' = [pc EXCEPT ![t] = "load_xgb"]
    /\ UNCHANGED <<models_lock, req, features, model_choice, output,
                   prediction, score, resp, loadCount, loadFailed, enteredEmpty>>

\* One read of an artifact: it succeeds and the entry is loaded, or it
\* raises; the except clause re-raises, the with block releases the lock
\* and the exception leaves analyze_satellite.
LoadArtifact(t, at, key, next) ==
    /\ pc[t] = at
    /\ \E ok \in BOOLEAN :
         IF ok
         THEN /\ models' = [models EXCEPT ![key] = "loaded"]
              /\ pc' = [pc EXCEPT ![t] = next]
              /\ models_lock' =
                   IF next = "validate" THEN ReleaseLock(t) ELSE models_lock
              /\ UNCHANGED <<resp, loadFailed>>
         ELSE /\ models_lock' = ReleaseLock(t)
              /\ resp' = [resp EXCEPT ![t] = LoadError]
              /\ pc' = [pc EXCEPT ![t] = "done"]
              /\ loadFailed' = TRUE
              /\ UNCHANGED models
    /\ UNCHANGED <<req, features, model_choice, output, prediction, score,
                   loadCount, enteredEmpty>>

LoadXgb(t) == LoadArtifact(t, "load_xgb", "xgb", "load_cnn")
LoadCnn(t) == LoadArtifact(t, "load_cnn", "cnn", "load_iso_forest")
LoadIsoForest(t) == LoadArtifact(t, "load_iso_forest", "iso_forest", "load_scaler")
LoadScaler(t) == LoadArtifact(t, "load_scaler", "scaler", "validate")

\* ------------------------------------------------------ analyze_satellite
\* Variant: only TLE_LINE1 is tested.
MissingFields_Line1Only(r) == ~r.has1

\* if not request.json or a TLE key is missing: 400
MissingFields(r) == ~r.has1 \/ ~r.has2

Validate(t) ==
    /\ pc[t] = "validate"
    /\ IF MissingFields(req[t])
       THEN /\ resp' = [resp EXCEPT ![t] = InvalidInput]
            /\ pc' = [pc EXCEPT ![t] = "done"]
       ELSE /\ pc' = [pc EXCEPT ![t] = "parse"]
            /\ UNCHANGED resp
    /\ UNCHANGED <<models, models_lock, req, features, model_choice, output,
                   prediction, score, loadCount, loadFailed, enteredEmpty>>

Parse(t) ==
    /\ pc[t] = "parse"
    /\ features' =
         [features EXCEPT ![t] = parse_tle_to_features(req[t].line1, req[t].line2)]
    /\ IF features'[t] = NoFeatures
       THEN /\ resp' = [resp EXCEPT ![t] = ParseFailed]
            /\ pc' = [pc EXCEPT ![t] = "done"]
       ELSE /\ pc' = [pc EXCEPT ![t] = "scale"]
            /\ UNCHANGED resp
    /\ UNCHANGED <<models, models_lock, req, model_choice, output, prediction,
                   score, loadCount, loadFailed, enteredEmpty>>

\* models["scaler"].transform(df): an AttributeError when the entry is None.
Scale(t) ==
    /\ pc[t] = "scale"
    /\ IF models["scaler"] = "loaded"
       THEN /\ pc' = [pc EXCEPT ![t] = "select"]
            /\ UNCHANGED resp
       ELSE /\ resp' = [resp EXCEPT ![t] = Unhandled("AttributeError")]
            /\ pc' = [pc EXCEPT ![t] = "done"]
    /\ UNCHANGED <<models, models_lock, req, features, model_choice, output,
                   prediction, score, loadCount, loadFailed, enteredEmpty>>

\* model_choice = random.choice([...])
Select(t) ==
    /\ pc[t] = "select"
    /\ \E c \in MODEL_CHOICES : model_choice' = [model_choice EXCEPT ![t] = c]
    /\ pc' = [pc EXCEPT ![t] = "predict"]
    /\ UNCHANGED <<models, models_lock, req, features, output, prediction,
                   score, resp, loadCount, loadFailed, enteredEmpty>>

\* The scoring call on the selected model, and the score's normalisation.
Predict(t, wide) ==
    /\ pc[t] = "predict"
    /\ IF models[ModelKey(model_choice[t])] = "loaded"
       THEN \E o \in ModelOutputs(model_choice[t], wide) :
              /\ output' = [output EXCEPT ![t] = o]
              /\ prediction' =
                   [prediction EXCEPT ![t] = PredictionOf(model_choice[t], o)]
              /\ score' = [score EXCEPT ![t] = ScoreOf(model_choice[t], o)]
              /\ pc' = [pc EXCEPT ![t] = "synthesize"]
              /\ UNCHANGED resp
       ELSE /\ resp' = [resp EXCEPT ![t] = Unhandled("model not loaded")]
            /\ pc' = [pc EXCEPT ![t] = "done"]
            /\ UNCHANGED <<output, prediction, score>>
    /\ UNCHANGED <<models, models_lock, req, features, model_choice, loadCount,
                   loadFailed, enteredEmpty>>

\* response_data = generate_risk_assessment(...); return jsonify(...)
Synthesize(t) ==
    /\ pc[t] = "synthesize"
    /\ \E reason_key \in DOMAIN ANOMALY_DETAILS_MAP :
         resp' = [resp EXCEPT ![t] =
                    [status |-> 200, error |-> "",
                     assessment |->
                       generate_risk_assessment(prediction[t], score[t],
                                                model_choice[t], reason_key)]]
    /\ pc' = [pc EXCEPT ![t] = "done"]
    /\ UNCHANGED <<models, models_lock, req, features, model_choice, output,
                   prediction, score, loadCount, loadFailed, enteredEmpty>>

Next ==
    \E t \in Calls :
        \/ Receive(t)
        \/ Acquire(t)
        \/ Check(t)
        \/ ConstructXgb(t)
        \/ LoadXgb(t)
        \/ LoadCnn(t)
        \/ LoadIsoForest(t)
        \/ LoadScaler(t)
        \/ Validate(t)
        \/ Parse(t)
        \/ Scale(t)
        \/ Select(t)
        \/ Predict(t, FALSE)
        \/ Synthesize(t)

Spec == Init /\ [][Next]_vars

\* ------------------------------------------------------------- SpecScore
\* The scoring call and the synthesizer over the whole grid of model
\* outputs: one call that has passed validation, parsing and scaling, the
\* registry loaded by an earlier call.
Loaded == [k \in MODEL_KEYS |-> "loaded"]
GoodRequest ==
    [has1 |-> TRUE, has2 |-> TRUE, line1 |-> GoodLine, line2 |-> GoodLine]

ScoreInit ==
    /\ models = Loaded
    /\ models_lock = 0
    /\ pc = [t \in Calls |-> IF t = 1 THEN "select" ELSE "idle"]
    /\ req = [t \in Calls |-> IF t = 1 THEN GoodRequest ELSE NoRequest]
    /\ features =
         [t \in Calls |->
            IF t = 1 THEN parse_tle_to_features(GoodLine, GoodLine)
            ELSE NoFeatures]
    /\ model_choice = [t \in Calls |-> ""]
    /\ output = [t \in Calls |-> NoOutput]
    /\ prediction = [t \in Calls |-> 0]
    /\ score = [t \in Calls |-> 0]
    /\ resp = [t \in Calls |-> NoResponse]
    /\ loadCount = 1
    /\ loadFailed = FALSE
    /\ enteredEmpty = {}

ScoreNext ==
    \E t \in Calls :
        \/ Select(t)
        \/ Predict(t, TRUE)
        \/ Synthesize(t)

SpecScore == ScoreInit /\ [][ScoreNext]_vars

\* ------------------------------------------------------------- SpecParse
\* The parser over lines of many lengths with a blank or a letter at the
\* edges of the columns it reads.
LineLens == {0} \cup ((MaxLineLen - 10)..MaxLineLen)

\* First and last column (1-based) of every slice, and the column after.
EdgeCols(slices) ==
    {0} \cup UNION {{slices[f][1] + 1, slices[f][2], slices[f][2] + 1} :
                       f \in DOMAIN slices}

LinesFor(slices) ==
    {MkLine(n, c, ch) :
        n \in LineLens, c \in EdgeCols(slices), ch \in {Blank, Letter}}

ParseInit ==
    /\ models = Loaded
    /\ models_lock = 0
    /\ pc = [t \in Calls |-> IF t = 1 THEN "parse" ELSE "idle"]
    /\ \E l1 \in LinesFor(Line1Slices), l2 \in LinesFor(Line2Slices) :
         req = [t \in Calls |->
                  IF t = 1
                  THEN [has1 |-> TRUE, has2 |-> TRUE, line1 |-> l1, line2 |-> l2]
                  ELSE NoRequest]
    /\ features = [t \in Calls |-> NoFeatures]
    /\ model_choice = [t \in Calls |-> ""]
    /\ output = [t \in Calls |-> NoOutput]
    /\ prediction = [t \in Calls |-> 0]
    /\ score = [t \in Calls |-> 0]
    /\ resp = [t \in Calls |-> NoResponse]
    /\ loadCount = 1
    /\ loadFailed = FALSE
    /\ enteredEmpty = {}

ParseNext == \E t \in Calls : Parse(t)

SpecParse == ParseInit /\ [][ParseNext]_vars

\* ------------------------------------------------------------ properties
Done(t) == pc[t] = "done"
Answered(t) == Done(t) /\ resp[t].status = 200

\* t is inside the body of "if models['xgb'] is None".
Loading(t) ==
    pc[t] \in {"construct_xgb", "load_xgb", "load_cnn", "load_iso_forest",
               "load_scaler"}

\* load_models_if_needed has returned to t without raising.
PastLoad(t) ==
    \/ pc[t] \in {"validate", "parse", "scale", "select", "predict", "synthesize"}
    \/ Done(t) /\ resp[t] # LoadError

\* t's request lacks TLE_LINE1 or TLE_LINE2.
LacksField(t) == ~req[t].has1 \/ ~req[t].has2

\* t is at feature scaling, model selection, the scoring call or synthesis.
Scoring(t) == pc[t] \in {"scale", "select", "predict", "synthesize"}

\* The anomaly flag, read off the model's output.
Flagged(t) ==
    IF model_choice[t] = "Isolation Forest"
    THEN output[t].label = -1
    ELSE 2 * output[t].p > Unit

\* The documented bands of the risk level.
BandOf(rs) ==
    CASE rs \in 86..100 -> "Critical"
      [] rs \in 71..85 -> "High"
      [] rs \in 41..70 -> "Moderate"
      [] rs \in 0..40 -> "Low"
      [] OTHER -> "none"

\* C1: however many calls arrive while the registry is empty, the load
\* body is entered exactly once over the run: never twice, never by two
\* calls at a time, and every call that got past load_models_if_needed or
\* saw it raise did so after that single load.
C1_LoadExactlyOnce ==
    /\ loadCount <= 1
    /\ Cardinality({t \in Calls : Loading(t)}) <= 1
    /\ \A t \in Calls : (PastLoad(t) \/ Loading(t) \/ Done(t)) => loadCount = 1

\* C1 witness: two calls that both arrived while the registry was empty are
\* both past load_models_if_needed, after one load.
C1_Witness ==
    \E t1, t2 \in enteredEmpty :
        t1 # t2 /\ PastLoad(t1) /\ PastLoad(t2) /\ loadCount = 1

\* C2: once the load has failed, every analyze call that ends, ends with
\* a 500; none returns 200 or 400.
C2_FailedLoadRefusesAll ==
    loadFailed => \A t \in Calls : Done(t) => resp[t].status = 500

\* C3: whenever some call is past load_models_if_needed without an error,
\* all four registry entries hold loaded artifacts.
C3_NoPartialRegistry ==
    \A t \in Calls : PastLoad(t) => \A k \in MODEL_KEYS : models[k] = "loaded"

\* C4 (as claimed): a request with TLE_LINE1 or TLE_LINE2 missing is always
\* answered 400 "Invalid input. TLE data is required.".
C4_MissingFieldAlways400 ==
    \A t \in Calls : (Done(t) /\ LacksField(t)) => resp[t] = InvalidInput

\* C4 (amended): a request with a TLE field missing is answered 400
\* "Invalid input. TLE data is required." unless its own call of
\* load_models_if_needed raised; that happens to at most one call of the
\* run, one that arrived while the registry was empty, and it gets the 500.
C4_MissingField400UnlessOwnLoadRaised ==
    /\ \A t \in Calls :
         (Done(t) /\ LacksField(t)) =>
            \/ resp[t] = InvalidInput
            \/ resp[t] = LoadError /\ t \in enteredEmpty /\ loadFailed
    /\ Cardinality({t \in Calls : resp[t] = LoadError}) <= 1

\* C4 witness: a request without TLE_LINE2 was answered 400 "Invalid input"
\* after another call's load had failed.
C4_Witness ==
    \E t \in Calls :
        /\ Done(t) /\ req[t].has1 /\ ~req[t].has2
        /\ resp[t] = InvalidInput
        /\ loadFailed

\* C5: a call at feature scaling, model selection, the scoring call or
\* risk synthesis never owns models_lock.
C5_NoLockWhileScoring ==
    \A t \in Calls : Scoring(t) => models_lock # t

\* C5 witness: the scoring calls of two requests are in progress at once.
C5_Witness ==
    \E t1, t2 \in Calls : t1 # t2 /\ pc[t1] = "predict" /\ pc[t2] = "predict"

\* C6 (as claimed): the reported riskScore is round(score * 100), for
\* anomalous and for Informational records alike.
C6_RiskScoreIsRounded ==
    \A t \in Calls :
        Answered(t) =>
            resp[t].assessment.riskScore = RoundHalfEven(score[t] * Percent, Unit)

\* C6 (amended): the reported riskScore is score * 100 cut down to an
\* integer (never above the rounded value), for anomalous and Informational
\* records alike; an anomalous record's riskLevel is the band of that
\* integer; score 0.9 gives 90, and Critical when anomalous.
C6_RiskScoreIsTruncated ==
    \A t \in Calls :
        Answered(t) =>
            LET rs == resp[t].assessment.riskScore
                lvl == resp[t].assessment.riskLevel
            IN  /\ rs * Unit <= score[t] * Percent
                /\ score[t] * Percent < (rs + 1) * Unit
                /\ rs <= RoundHalfEven(score[t] * Percent, Unit)
                /\ lvl = (IF Flagged(t) THEN BandOf(rs) ELSE "Informational")
                /\ score[t] = 900 =>
                     rs = 90 /\ (Flagged(t) => lvl = "Critical")

\* C6 witness: an anomalous score of 0.906 was reported as 90, Critical.
C6_Witness ==
    \E t \in Calls :
        /\ Answered(t) /\ Flagged(t) /\ score[t] = 906
        /\ resp[t].assessment.riskScore = 90
        /\ resp[t].assessment.riskLevel = "Critical"

\* C7: for an anomalous output the riskScore is in 0..100 and the level is
\* Critical for 86..100, High for 71..85, Moderate for 41..70, Low for
\* 0..40, and never Informational.
C7_LevelBands ==
    \A t \in Calls :
        (Answered(t) /\ Flagged(t)) =>
            /\ resp[t].assessment.riskScore \in 0..100
            /\ resp[t].assessment.riskLevel = BandOf(resp[t].assessment.riskScore)
            /\ resp[t].assessment.riskLevel # "Informational"

\* C7 witness: an anomalous riskScore of exactly 85 was reported High.
C7_Witness ==
    \E t \in Calls :
        /\ Answered(t) /\ Flagged(t)
        /\ resp[t].assessment.riskScore = 85
        /\ resp[t].assessment.riskLevel = "High"

\* C8: the score handed to the synthesizer is in [0,1] for every variant
\* and the riskScore in 0..100; a classifier's score is its probability;
\* the isolation forest's is 1 - clamp((d + 0.15) / 0.2, 0, 1): 1 for
\* d <= -0.15 (d = -10 included), 0 for d >= 0.05, linear in between.
C8_ScoreInUnitInterval ==
    \A t \in Calls :
        (pc[t] = "synthesize" \/ Answered(t)) =>
            LET d == output[t].d
            IN  /\ score[t] \in 0..Unit
                /\ Answered(t) => resp[t].assessment.riskScore \in 0..100
                /\ model_choice[t] # "Isolation Forest" => score[t] = output[t].p
                /\ model_choice[t] = "Isolation Forest" =>
                     /\ d <= -150 => score[t] = Unit
                     /\ d >= 50 => score[t] = 0
                     /\ (d > -150 /\ d < 50) => score[t] = 5 * (50 - d)

\* C8 witness: the isolation forest returned d = -10 and the score is 1.0.
C8_Witness ==
    \E t \in Calls :
        /\ pc[t] = "synthesize"
        /\ model_choice[t] = "Isolation Forest"
        /\ output[t].d = PathologicalDecision
        /\ score[t] = Unit

\* C9: a line1 or line2 shorter than 69 characters, or a letter in a column
\* the parser reads, always ends in the parse failure (None, 400 "Failed
\* to parse TLE data."); the result is the failure or all 8 features.
C9_ShortOrNonNumericFails ==
    \A t \in Calls :
        (pc[t] \in {"scale", "done"} /\ ~LacksField(t)) =>
            LET l1 == req[t].line1
                l2 == req[t].line2
                letter(c) == \E i \in 1..Len(c) : c[i] = Letter
                malformed ==
                    \/ Len(l1) < 69
                    \/ Len(l2) < 69
                    \/ \E f \in DOMAIN Line1Slices : letter(Cut1(l1, f))
                    \/ \E f \in DOMAIN Line2Slices : letter(Cut2(l2, f))
            IN  /\ malformed => (features[t] = NoFeatures /\ resp[t] = ParseFailed)
                /\ features[t] = NoFeatures \/ DOMAIN features[t] = FEATURES

\* C10: for XGBoost and CNN the flag and the score come from one
\* probability, so their anomalous records have riskScore >= 50 and a level
\* of Moderate, High or Critical, their Informational records have
\* riskScore <= 50, and a Low record can only come from the isolation forest.
C10_ClassifierNeverLow ==
    \A t \in Calls :
        Answered(t) =>
            LET rs == resp[t].assessment.riskScore
                lvl == resp[t].assessment.riskLevel
            IN  /\ model_choice[t] \in {"XGBoost", "CNN"} =>
                     /\ (lvl # "Informational") = (2 * output[t].p > Unit)
                     /\ lvl # "Informational" =>
                          rs >= 50 /\ lvl \in {"Moderate", "High", "Critical"}
                     /\ lvl = "Informational" => rs <= 50
                /\ lvl = "Low" => model_choice[t] = "Isolation Forest"

\* C10 witness: XGBoost flagged p = 0.501 and the record is 50, Moderate.
C10_Witness ==
    \E t \in Calls :
        /\ Answered(t) /\ model_choice[t] = "XGBoost" /\ output[t].p = 501
        /\ resp[t].assessment.riskScore = 50
        /\ resp[t].assessment.riskLevel = "Moderate"

====
